---- MODULE Spec2Model ----
(***************************************************************************)
(* Model of app.py: the "Fetch Europe PMC + PMC" button handler.           *)
(*                                                                         *)
(* One press of the button runs, in order and without concurrency,         *)
(*   fetch_europe_pmc (one HTTP GET), fetch_pmc (esearch GET, then an      *)
(*   efetch GET when the id list is non-empty), pd.concat +                *)
(*   drop_duplicates(subset=["DOI","PMCID"]) and make_ris.                 *)
(* The remote services are the environment: every response (timeout,       *)
(* status, body, number and content of hits) is chosen nondeterministically*)
(* An uncaught Python exception ends the script run (pc = "crashed").      *)
(*                                                                         *)
(* Values.  A Python value that may be None is a sequence of length <= 1:  *)
(* None is <<>> and a present value x is <<x>>.  A text is a sequence of   *)
(* tokens (strings), the empty string being <<>>; the tokens "," and " "   *)
(* are the comma and the blank that str.split and str.strip look at.       *)
(***************************************************************************)
EXTENDS Integers, Sequences, FiniteSets, TLC

(***************************************************************************)
(* Bounds of the model.                                                    *)
(***************************************************************************)
\* largest number of hits / ids / articles an upstream holds or sends
MaxHits == 2
\* max_results ranges over 1..MaxK (the slider's 10..200, scaled down)
MaxK == 2
\* rows the two frames hold together in the aggregation-only specification
MaxRows == 3

(***************************************************************************)
(* Python values                                                           *)
(***************************************************************************)
None == <<>>

Some(x) == <<x>>

\* a text of one token
Str(s) == <<s>>

\* f"{v}": None is rendered as the four letters None
Format(v) == IF v = None THEN Str("None") ELSE v[1]

\* bool(v) for v None or a text: None and "" are falsy
Truthy(v) == v # None /\ v[1] # <<>>

\* pd.notna(v)
NotNa(v) == v # None

Min(a, b) == IF a <= b THEN a ELSE b

\* ceil(n / p) for p > 0
CeilDiv(n, p) == (n + p - 1) \div p

\* position of the first "," of text t, 0 when there is none
FirstComma(t) ==
    IF \E i \in 1..Len(t) : t[i] = ","
    THEN CHOOSE i \in 1..Len(t) : t[i] = "," /\ \A j \in 1..(i - 1) : t[j] # ","
    ELSE 0

RECURSIVE Split(_)
\* t.split(","): the segments between commas, empty segments included
Split(t) ==
    IF FirstComma(t) = 0
    THEN <<t>>
    ELSE <<SubSeq(t, 1, FirstComma(t) - 1)>>
             \o Split(SubSeq(t, FirstComma(t) + 1, Len(t)))

RECURSIVE Strip(_)
\* t.strip(): leading and trailing blanks removed
Strip(t) ==
    IF t = <<>> THEN t
    ELSE IF t[1] = " " THEN Strip(Tail(t))
    ELSE IF t[Len(t)] = " " THEN Strip(SubSeq(t, 1, Len(t) - 1))
    ELSE t

RECURSIVE Join(_, _)
\* sep.join(parts)
Join(sep, parts) ==
    IF parts = <<>> THEN <<>>
    ELSE IF Len(parts) = 1 THEN parts[1]
    ELSE parts[1] \o sep \o Join(sep, Tail(parts))

RECURSIVE SeqsUpTo(_, _)
\* all sequences over S of length at most n
SeqsUpTo(S, n) ==
    IF n = 0 THEN {<<>>}
    ELSE SeqsUpTo(S, n - 1)
           \cup {Append(s, x) : s \in {q \in SeqsUpTo(S, n - 1) : Len(q) = n - 1}, x \in S}

\* all sequences over S of length exactly n
SeqsOfLen(S, n) == {s \in SeqsUpTo(S, n) : Len(s) = n}

(***************************************************************************)
(* Identifiers                                                             *)
(***************************************************************************)
\* the DOI values and the PMCID values records carry
DoiNames == <<"10.1/a", "10.1/b">>

PmcidNames == <<"PMC1", "PMC2">>

\* the ids an esearch id list is made of, in order
EsearchIds == <<"101", "102", "103", "104">>

\* an absent DOI (index 0) or the i-th DOI
Doi(i) == IF i = 0 THEN None ELSE Some(Str(DoiNames[i]))

\* an absent PMCID (index 0) or the i-th PMCID
Pmcid(i) == IF i = 0 THEN None ELSE Some(Str(PmcidNames[i]))


(***************************************************************************)
(* Europe PMC: raw hits and their mapping to rows (fetch_europe_pmc)       *)
(***************************************************************************)
\* a hit whose every field is populated; d and p index its DOI and PMCID
FullHit(d, p) ==
    [title |-> Some(Str("Sutures")),
     authorString |-> Some(<<"Smith J", ",", " ", "Doe A">>),
     journalTitle |-> Some(Str("Surgery")),
     pubYear |-> Some(Str("2020")),
     doi |-> Doi(d),
     pmid |-> Some(Str("111")),
     pmcid |-> Pmcid(p),
     isOpenAccess |-> Some(Str("Y")),
     fullTextUrlList |->
         Some([fullTextUrl |-> Some(<<[url |-> Some(Str("http://x/pdf"))]>>)])]

\* a hit object with no key at all: every h.get(...) returns None
BareHit ==
    [title |-> None, authorString |-> None, journalTitle |-> None,
     pubYear |-> None, doi |-> None, pmid |-> None, pmcid |-> None,
     isOpenAccess |-> None, fullTextUrlList |-> None]

\* a hit whose fullTextUrlList object has no fullTextUrl key
NoUrlKeyHit(d, p) ==
    [FullHit(d, p) EXCEPT !.fullTextUrlList = Some([fullTextUrl |-> None])]

\* a hit whose fullTextUrl list is present and empty
EmptyUrlListHit(d, p) ==
    [FullHit(d, p) EXCEPT !.fullTextUrlList = Some([fullTextUrl |-> Some(<<>>)])]

\* h.get("fullTextUrlList", {}).get("fullTextUrl", [{}])
FullTextUrls(h) ==
    LET lst == IF h.fullTextUrlList = None
               THEN [fullTextUrl |-> None]
               ELSE h.fullTextUrlList[1]
    IN  IF lst.fullTextUrl = None THEN <<[url |-> None]>> ELSE lst.fullTextUrl[1]

\* the [0] subscript of line 143 raises IndexError on an empty list
HitRaises(h) == FullTextUrls(h) = <<>>

\* the row lines 134-144 build for a hit on which they do not raise
EpmcRow(h) ==
    [Title |-> h.title,
     Authors |-> h.authorString,
     Journal |-> h.journalTitle,
     Year |-> h.pubYear,
     DOI |-> h.doi,
     PMID |-> h.pmid,
     PMCID |-> h.pmcid,
     OA |-> IF h.isOpenAccess = Some(Str("Y")) THEN Str("Yes") ELSE Str("No"),
     PDF |-> FullTextUrls(h)[1].url]

(***************************************************************************)
(* PMC: efetch articles and their mapping to rows (fetch_pmc)              *)
(***************************************************************************)
\* an article element with every looked-up child present
FullArticle(d, p) ==
    [title |-> Some(Str("Sutures")),
     journal |-> Some(Str("Surgery")),
     year |-> Some(Str("2020")),
     contribs |-> <<[surname |-> Some(Str("Smith")), given |-> Some(Str("J"))],
                    [surname |-> Some(Str("Doe")), given |-> Some(Str("A"))]>>,
     pmc |-> Pmcid(p),
     doi |-> Doi(d)]

\* an article element with none of the looked-up children
BareArticle ==
    [title |-> None, journal |-> None, year |-> None, contribs |-> <<>>,
     pmc |-> None, doi |-> None]

\* f"{a.findtext('surname')} {a.findtext('given-names')}"
ContribName(c) == Format(c.surname) \o Str(" ") \o Format(c.given)

\* the row lines 179-195 build for an article
PmcRow(a) ==
    [Title |-> a.title,
     Authors |-> Some(Join(<<",", " ">>,
                           [i \in 1..Len(a.contribs) |-> ContribName(a.contribs[i])])),
     Journal |-> a.journal,
     Year |-> a.year,
     DOI |-> a.doi,
     PMID |-> Some(<<>>),
     PMCID |-> a.pmc,
     OA |-> Str("Yes"),
     PDF |-> Some(<<>>)]

(***************************************************************************)
(* Data frames                                                             *)
(***************************************************************************)
Columns == {"Title", "Authors", "Journal", "Year", "DOI", "PMID", "PMCID", "OA", "PDF"}

\* pd.DataFrame(rows): a frame built from no row has no column
DataFrame(rows) == [columns |-> IF rows = <<>> THEN {} ELSE Columns, rows |-> rows]

\* pd.concat([a, b], ignore_index=True)
Concat(a, b) == [columns |-> a.columns \cup b.columns, rows |-> a.rows \o b.rows]

\* the values drop_duplicates compares: the row restricted to the subset
KeyOf(r) == <<r.DOI, r.PMCID>>

\* mutation: duplicated(keep=False) semantics, every member of a duplicate group is marked
DuplicatedKeepNone(rows, i) ==
    \E j \in 1..Len(rows) : j # i /\ KeyOf(rows[j]) = KeyOf(rows[i])

\* DataFrame.duplicated(subset, keep="first"): row i repeats an earlier row's key
Duplicated(rows, i) == \E j \in 1..(i - 1) : KeyOf(rows[j]) = KeyOf(rows[i])

RECURSIVE KeepFrom(_, _)
KeepFrom(rows, i) ==
    IF i > Len(rows) THEN <<>>
    ELSE (IF Duplicated(rows, i) THEN <<>> ELSE <<rows[i]>>) \o KeepFrom(rows, i + 1)

\* the rows drop_duplicates(subset=["DOI","PMCID"]) keeps, in order
DropDuplicates(rows) == KeepFrom(rows, 1)

\* drop_duplicates raises KeyError when a subset column is missing
DedupRaises(frame) == ~({"DOI", "PMCID"} \subseteq frame.columns)

(***************************************************************************)
(* RIS export (make_ris)                                                   *)
(***************************************************************************)
\* the line f"{tag}  - {val}"
RisLine(tag, val) == [tag |-> tag, val |-> val]

\* lines 227-229: one AU line per comma-separated segment
AuthorLines(r) ==
    IF NotNa(r.Authors)
    THEN [i \in 1..Len(Split(r.Authors[1])) |->
              RisLine("AU", Strip(Split(r.Authors[1])[i]))]
    ELSE <<>>

\* lines 221-236: the block of one row
RisBlock(r) ==
    <<RisLine("TY", Str("JOUR")),
      RisLine("TI", Format(r.Title)),
      RisLine("JO", Format(r.Journal)),
      RisLine("PY", Format(r.Year))>>
    \o AuthorLines(r)
    \o (IF Truthy(r.DOI) THEN <<RisLine("DO", Format(r.DOI))>> ELSE <<>>)
    \o (IF Truthy(r.PMID) THEN <<RisLine("PM", Format(r.PMID))>> ELSE <<>>)
    \o (IF Truthy(r.PMCID) THEN <<RisLine("PMCID", Format(r.PMCID))>> ELSE <<>>)
    \o <<RisLine("ER", <<>>), RisLine("", <<>>)>>

RECURSIVE make_ris(_)
\* the list `out` of make_ris, one element per line
make_ris(rows) ==
    IF rows = <<>> THEN <<>> ELSE RisBlock(rows[1]) \o make_ris(Tail(rows))

(***************************************************************************)
(* The remote services                                                     *)
(***************************************************************************)
\* HTTP status codes an upstream answers with
Statuses == {200, 500}

\* hit objects Europe PMC may put in resultList.result
EpmcHits == {FullHit(1, 1), NoUrlKeyHit(1, 2), BareHit, EmptyUrlListHit(2, 1)}

\* article elements efetch may put in its XML
PmcArticles == {FullArticle(1, 1), BareArticle}

\* the first n ids of the esearch id list
IdList(n) == [i \in 1..n |-> EsearchIds[i]]

\* no response received (yet), or the request timed out (net = "timeout")
NoResponse(net) ==
    [net |-> net, status |-> 0, parses |-> FALSE, total |-> 0, pageSize |-> 1,
     items |-> <<>>]

\* a response whose body is not JSON / not well-formed XML
BadBody(s) ==
    [net |-> "ok", status |-> s, parses |-> FALSE, total |-> 0, pageSize |-> 1,
     items |-> <<>>]

\* a response whose body parses: the upstream holds `total` matches, puts
\* `pageSize` of them in one page, and this page carries `items`
Page(s, total, pageSize, items) ==
    [net |-> "ok", status |-> s, parses |-> TRUE, total |-> total,
     pageSize |-> pageSize, items |-> items]

(***************************************************************************)
(* State                                                                   *)
(***************************************************************************)
VARIABLES
    pc,            \* position of the script run
    max_results,   \* the sidebar slider's value
    epmc_resp,     \* response to the Europe PMC search request
    esearch_resp,  \* response to the PMC esearch request
    efetch_resp,   \* response to the PMC efetch request
    requests,      \* number of GET requests issued, per endpoint
    df_epmc,       \* fetch_europe_pmc's return value
    df_pmc,        \* fetch_pmc's return value
    df,            \* the deduplicated frame
    ris,           \* make_ris's lines
    error          \* the uncaught exception, "none" when there is none

vars == <<pc, max_results, epmc_resp, esearch_resp, efetch_resp, requests,
          df_epmc, df_pmc, df, ris, error>>

Init ==
    /\ pc = "idle"
    /\ max_results \in 1..MaxK
    /\ epmc_resp = NoResponse("none")
    /\ esearch_resp = NoResponse("none")
    /\ efetch_resp = NoResponse("none")
    /\ requests = [epmc |-> 0, esearch |-> 0, efetch |-> 0]
    /\ df_epmc = DataFrame(<<>>)
    /\ df_pmc = DataFrame(<<>>)
    /\ df = DataFrame(<<>>)
    /\ ris = <<>>
    /\ error = "none"

\* an exception nobody catches ends the script run
Crash(exc) ==
    /\ pc' = "crashed"
    /\ error' = exc

(***************************************************************************)
(* The button handler                                                      *)
(***************************************************************************)
\* the button is pressed: fetch_europe_pmc issues its one GET
ClickFetch ==
    /\ pc = "idle"
    /\ pc' = "epmc_wait"
    /\ requests' = [requests EXCEPT !.epmc = @ + 1]
    /\ UNCHANGED <<max_results, epmc_resp, esearch_resp, efetch_resp,
                   df_epmc, df_pmc, df, ris, error>>

\* requests.get raises after timeout=30
EpmcTimeout ==
    /\ pc = "epmc_wait"
    /\ epmc_resp' = NoResponse("timeout")
    /\ Crash("Timeout")
    /\ UNCHANGED <<max_results, esearch_resp, efetch_resp, requests,
                   df_epmc, df_pmc, df, ris>>

\* r.json() raises on a body that is not JSON, whatever the status
EpmcBadBody ==
    /\ pc = "epmc_wait"
    /\ \E s \in Statuses : epmc_resp' = BadBody(s)
    /\ Crash("JSONDecodeError")
    /\ UNCHANGED <<max_results, esearch_resp, efetch_resp, requests,
                   df_epmc, df_pmc, df, ris>>

\* mutation: the loop stops one hit short (an off-by-one over the hit list)
EpmcRowsSkipLast(hits) == [i \in 1..(Len(hits) - 1) |-> EpmcRow(hits[i])]

\* the rows of lines 132-144 for a hit list none of whose hits raises
EpmcRows(hits) == [i \in 1..Len(hits) |-> EpmcRow(hits[i])]

\* a JSON body arrives; the status is not looked at; the hits become rows,
\* then fetch_pmc issues its esearch GET
EpmcJson ==
    /\ pc = "epmc_wait"
    /\ \E s \in Statuses, total \in 0..MaxHits, pageSize \in 1..MaxHits :
         \E hits \in SeqsOfLen(EpmcHits, Min(total, pageSize)) :
            /\ epmc_resp' = Page(s, total, pageSize, hits)
            /\ IF \E i \in 1..Len(hits) : HitRaises(hits[i])
               THEN /\ Crash("IndexError")
                    /\ UNCHANGED <<df_epmc, requests>>
               ELSE /\ df_epmc' = DataFrame(EpmcRows(hits))
                    /\ pc' = "esearch_wait"
                    /\ requests' = [requests EXCEPT !.esearch = @ + 1]
                    /\ UNCHANGED error
    /\ UNCHANGED <<max_results, esearch_resp, efetch_resp, df_pmc, df, ris>>

EsearchTimeout ==
    /\ pc = "esearch_wait"
    /\ esearch_resp' = NoResponse("timeout")
    /\ Crash("Timeout")
    /\ UNCHANGED <<max_results, epmc_resp, efetch_resp, requests,
                   df_epmc, df_pmc, df, ris>>

EsearchBadBody ==
    /\ pc = "esearch_wait"
    /\ \E s \in Statuses : esearch_resp' = BadBody(s)
    /\ Crash("JSONDecodeError")
    /\ UNCHANGED <<max_results, epmc_resp, efetch_resp, requests,
                   df_epmc, df_pmc, df, ris>>

\* a JSON body arrives; an empty id list returns the empty frame at once,
\* otherwise the efetch GET is issued for the ids
EsearchJson ==
    /\ pc = "esearch_wait"
    /\ \E s \in Statuses, total \in 0..MaxHits, pageSize \in 1..MaxHits :
         LET ids == IdList(Min(total, pageSize))
         IN  /\ esearch_resp' = Page(s, total, pageSize, ids)
             /\ IF ids = <<>>
                THEN /\ df_pmc' = DataFrame(<<>>)
                     /\ pc' = "aggregate"
                     /\ UNCHANGED requests
                ELSE /\ pc' = "efetch_wait"
                     /\ requests' = [requests EXCEPT !.efetch = @ + 1]
                     /\ UNCHANGED df_pmc
    /\ UNCHANGED <<max_results, epmc_resp, efetch_resp, df_epmc, df, ris, error>>

EfetchTimeout ==
    /\ pc = "efetch_wait"
    /\ efetch_resp' = NoResponse("timeout")
    /\ Crash("Timeout")
    /\ UNCHANGED <<max_results, epmc_resp, esearch_resp, requests,
                   df_epmc, df_pmc, df, ris>>

\* ET.fromstring raises on a body that is not well-formed XML
EfetchBadBody ==
    /\ pc = "efetch_wait"
    /\ \E s \in Statuses : efetch_resp' = BadBody(s)
    /\ Crash("ParseError")
    /\ UNCHANGED <<max_results, epmc_resp, esearch_resp, requests,
                   df_epmc, df_pmc, df, ris>>

RECURSIVE PmcRowsPerAuthor(_)
\* mutation: rows.append sits inside the author loop, one row per author
PmcRowsPerAuthor(articles) ==
    IF articles = <<>> THEN <<>>
    ELSE [j \in 1..Len(articles[1].contribs) |-> PmcRow(articles[1])]
            \o PmcRowsPerAuthor(Tail(articles))

\* the rows of lines 178-195
PmcRows(articles) == [i \in 1..Len(articles) |-> PmcRow(articles[i])]

\* an XML body arrives; every article element becomes a row
EfetchXml ==
    /\ pc = "efetch_wait"
    /\ \E s \in Statuses, articles \in SeqsUpTo(PmcArticles, MaxHits) :
         /\ efetch_resp' = Page(s, Len(articles), Len(esearch_resp.items), articles)
         /\ df_pmc' = DataFrame(PmcRows(articles))
    /\ pc' = "aggregate"
    /\ UNCHANGED <<max_results, epmc_resp, esearch_resp, requests,
                   df_epmc, df, ris, error>>

\* line 211 and the export: concat, drop_duplicates, make_ris
Aggregate ==
    /\ pc = "aggregate"
    /\ LET all == Concat(df_epmc, df_pmc)
       IN  IF DedupRaises(all)
           THEN /\ Crash("KeyError")
                /\ UNCHANGED <<df, ris>>
           ELSE /\ df' = [columns |-> all.columns, rows |-> DropDuplicates(all.rows)]
                /\ ris' = make_ris(df'.rows)
                /\ pc' = "done"
                /\ UNCHANGED error
    /\ UNCHANGED <<max_results, epmc_resp, esearch_resp, efetch_resp, requests,
                   df_epmc, df_pmc>>

Next ==
    \/ ClickFetch
    \/ EpmcTimeout
    \/ EpmcBadBody
    \/ EpmcJson
    \/ EsearchTimeout
    \/ EsearchBadBody
    \/ EsearchJson
    \/ EfetchTimeout
    \/ EfetchBadBody
    \/ EfetchXml
    \/ Aggregate

Spec == Init /\ [][Next]_vars

(***************************************************************************)
(* The aggregation step on its own: the state after two successful pulls,  *)
(* with every combination of DOI and PMCID among the rows.                 *)
(***************************************************************************)
\* (DOI index, PMCID index) of a row, 0 standing for an absent identifier
KeyPairs == (0..Len(DoiNames)) \X (0..Len(PmcidNames))

InitAgg ==
    \E keys \in SeqsUpTo(KeyPairs, MaxRows) :
      \E n \in 0..Len(keys) :
        LET hits == [i \in 1..n |-> FullHit(keys[i][1], keys[i][2])]
            articles == [i \in 1..(Len(keys) - n) |->
                            FullArticle(keys[n + i][1], keys[n + i][2])]
        IN  /\ pc = "aggregate"
            /\ max_results = MaxRows
            /\ epmc_resp = Page(200, Len(hits), MaxRows, hits)
            /\ esearch_resp = Page(200, Len(articles), MaxRows, IdList(Len(articles)))
            /\ efetch_resp = IF articles = <<>>
                             THEN NoResponse("none")
                             ELSE Page(200, Len(articles), Len(articles), articles)
            /\ requests = [epmc |-> 1, esearch |-> 1,
                           efetch |-> IF articles = <<>> THEN 0 ELSE 1]
            /\ df_epmc = DataFrame(EpmcRows(hits))
            /\ df_pmc = DataFrame(PmcRows(articles))
            /\ df = DataFrame(<<>>)
            /\ ris = <<>>
            /\ error = "none"

NextAgg == Aggregate

SpecAgg == InitAgg /\ [][NextAgg]_vars

(***************************************************************************)
(* Observations the properties are stated with                             *)
(***************************************************************************)
\* the concatenated rows, before deduplication
AllRows == Concat(df_epmc, df_pmc).rows

\* the script run is over
Ended == pc \in {"done", "crashed"}

\* fetch_europe_pmc has returned a frame
EpmcReturned ==
    /\ epmc_resp.parses
    /\ \A i \in 1..Len(epmc_resp.items) : ~HitRaises(epmc_resp.items[i])

\* fetch_pmc has returned a frame
PmcReturned ==
    /\ EpmcReturned
    /\ esearch_resp.parses
    /\ (esearch_resp.items = <<>> \/ efetch_resp.parses)

\* the response carries a failure status
HttpFailed(resp) == resp.net = "ok" /\ resp.status >= 400

\* the pull behind the response failed: timeout, failure status or bad body
PullFailed(resp) == resp.net = "timeout" \/ HttpFailed(resp) \/ (resp.net = "ok" /\ ~resp.parses)

\* neither identifier of the row is populated
KeyLess(r) == ~Truthy(r.DOI) /\ ~Truthy(r.PMCID)

\* the two rows share a populated DOI or a populated PMCID
SharesKey(a, b) ==
    \/ (Truthy(a.DOI) /\ a.DOI = b.DOI)
    \/ (Truthy(a.PMCID) /\ a.PMCID = b.PMCID)

\* number of rows of a sequence satisfying a test
CountRows(rows, Test(_)) == Cardinality({i \in 1..Len(rows) : Test(rows[i])})

\* number of RIS lines with the tag
CountTag(tag) == Cardinality({i \in 1..Len(ris) : ris[i].tag = tag})

(***************************************************************************)
(* C1.  Deduplication on either key: after the aggregation step no two     *)
(* kept records share a non-empty DOI or share a non-empty PMCID (a later  *)
(* record matching an earlier one on either identifier has been removed).  *)
(* The code compares the pair (DOI, PMCID) as a whole, so this fails.      *)
(***************************************************************************)
C1_EitherKeyDedup ==
    pc = "done" =>
        \A i, j \in 1..Len(df.rows) : i < j => ~SharesKey(df.rows[i], df.rows[j])

(***************************************************************************)
(* C2.  Key-less records are never merged or dropped: the deduplicated     *)
(* frame holds as many records without DOI and PMCID as the concatenation. *)
(* The code treats (None, None) as one key, so this fails.                 *)
(***************************************************************************)
C2_KeyLessKept ==
    pc = "done" => CountRows(df.rows, KeyLess) = CountRows(AllRows, KeyLess)

(***************************************************************************)
(* C3.  Failure isolation: a failed pull of one source never leaves the    *)
(* run without a result; after a failed Europe PMC pull the PMC pull is    *)
(* still made, the run ends with the PMC records and an error is reported. *)
(* The code catches nothing, so this fails.                                *)
(***************************************************************************)
C3_FailureIsolated ==
    /\ (PullFailed(epmc_resp) /\ Ended) =>
          /\ pc = "done"
          /\ requests.esearch > 0
          /\ df.rows = DropDuplicates(df_pmc.rows)
          /\ error # "none"
    /\ ((PullFailed(esearch_resp) \/ PullFailed(efetch_resp)) /\ Ended) =>
          /\ pc = "done"
          /\ df.rows = DropDuplicates(df_epmc.rows)
          /\ error # "none"

HasTitle(r) == Truthy(r.Title)

HasJournal(r) == Truthy(r.Journal)

HasYear(r) == Truthy(r.Year)

HasDoi(r) == Truthy(r.DOI)

HasPmid(r) == Truthy(r.PMID)

\* (row, segment) positions of the non-empty comma-separated author names
AuthorNames(rows) ==
    UNION {{<<i, j>> : j \in {k \in 1..Len(Split(rows[i].Authors[1])) :
                                  Strip(Split(rows[i].Authors[1])[k]) # <<>>}} :
           i \in {n \in 1..Len(rows) : Truthy(rows[n].Authors)}}

(***************************************************************************)
(* C7.  No blank RIS field: every line other than TY, ER and the separator *)
(* carries a non-empty value; there is one TI / JO / PY / DO / PM line per *)
(* record with a non-empty title / journal / year / DOI / PMID and one AU  *)
(* line per non-empty author name.                                         *)
(* TI, JO and PY are written unconditionally and empty author segments are *)
(* not skipped, so this fails.                                             *)
(***************************************************************************)
C7_NoBlankRisFields ==
    pc = "done" =>
        /\ \A i \in 1..Len(ris) :
              ris[i].tag \notin {"TY", "ER", ""} => ris[i].val # <<>>
        /\ CountTag("TI") = CountRows(df.rows, HasTitle)
        /\ CountTag("JO") = CountRows(df.rows, HasJournal)
        /\ CountTag("PY") = CountRows(df.rows, HasYear)
        /\ CountTag("DO") = CountRows(df.rows, HasDoi)
        /\ CountTag("PM") = CountRows(df.rows, HasPmid)
        /\ CountTag("AU") = Cardinality(AuthorNames(df.rows))

(***************************************************************************)
(* C8.  A failure status ends the pull in an UpstreamError and the body of *)
(* the failed response is not parsed: no row is built from a failed Europe *)
(* PMC or efetch response and no efetch is issued for the ids of a failed  *)
(* esearch response.  The code never looks at the status, so this fails.   *)
(***************************************************************************)
C8_FailedStatusRaises ==
    /\ HttpFailed(epmc_resp) =>
          (pc = "crashed" /\ error = "UpstreamError" /\ df_epmc.rows = <<>>)
    /\ HttpFailed(esearch_resp) =>
          (pc = "crashed" /\ error = "UpstreamError" /\ requests.efetch = 0)
    /\ HttpFailed(efetch_resp) =>
          (pc = "crashed" /\ error = "UpstreamError" /\ df_pmc.rows = <<>>)

(***************************************************************************)
(* C9.  Deduplication is idempotent: deduplicating the aggregated frame    *)
(* again returns it unchanged, and deduplicating the concatenation taken   *)
(* twice over yields as many records as the aggregated frame holds.        *)
(***************************************************************************)
C9_DedupIdempotent ==
    pc = "done" =>
        /\ DropDuplicates(df.rows) = df.rows
        /\ DropDuplicates(df.rows \o df.rows) = df.rows
        /\ Len(DropDuplicates(AllRows \o AllRows)) = Len(df.rows)

\* deduplication removed a record and kept at least two
C9_Witness ==
    /\ pc = "done"
    /\ Len(df.rows) >= 2
    /\ Len(df.rows) < Len(AllRows)

(***************************************************************************)
(* C10.  Partially populated hits never abort the Europe PMC pull: every   *)
(* parsed response yields one row per hit and no exception.                *)
(* An empty fullTextUrl list raises IndexError, so this fails.             *)
(***************************************************************************)
C10_PartialHitsTolerated ==
    (epmc_resp.net = "ok" /\ epmc_resp.parses) =>
        /\ error # "IndexError"
        /\ Len(df_epmc.rows) = Len(epmc_resp.items)

====
